---- MODULE Spec2Model ----
(***************************************************************************)
(* Differentially private estimators of diffprivlib.tools: quantile        *)
(* (tools/quantiles.py) and mean / var / std (tools/utils.py), together    *)
(* with the budget accountant they are specified to use.                   *)
(*                                                                         *)
(* Numbers.  Data values, bounds and ranges are integers.  A quantile      *)
(* fraction q is the integer q*QDen, a uniform draw u in [0,1) is the      *)
(* integer u*UDen, a value returned by quantile is scaled by UDen.         *)
(* Epsilon is counted in units of 1/EpsUnit.  A sensitivity is the exact   *)
(* fraction [num, den].  An undefined number (NaN) is the record NaN.      *)
(* Input domain: one-dimensional arrays and explicit bounds (lo, hi) for   *)
(* quantile; two-dimensional arrays with the default dtype, out, ddof and  *)
(* keepdims for mean / var / std.                                          *)
(***************************************************************************)
EXTENDS Integers, Sequences, FiniteSets, TLC

VARIABLES acc, last

vars == <<acc, last>>

\* ---- bounds of the model ------------------------------------------------
MaxLen == 2
MaxQ == 2
MaxSpends == 2
MaxDepth == 1
QDen == 2
UDen == 2

\* ---- program constants --------------------------------------------------
EpsUnit == 12
CapA == 18

\* ---- numbers with an undefined value ------------------------------------
NaN == [nan |-> TRUE, v |-> 0]

Num(n) == [nan |-> FALSE, v |-> n]

isnan(x) == x.nan

Sub(x, y) == IF x.nan \/ y.nan THEN NaN ELSE Num(x.v - y.v)

\* numpy's sort order: ascending, undefined values last
LessEq(x, y) == y.nan \/ (~x.nan /\ x.v <= y.v)

RECURSIVE Insert(_, _)
Insert(s, x) ==
    IF s = <<>> THEN <<x>>
    ELSE IF LessEq(x, Head(s)) THEN <<x>> \o s
    ELSE <<Head(s)>> \o Insert(Tail(s), x)

RECURSIVE sort(_)
sort(s) == IF s = <<>> THEN <<>> ELSE Insert(sort(Tail(s)), Head(s))

diff(s) == [i \in 1..(Len(s) - 1) |-> Sub(s[i + 1], s[i])]

Abs(n) == IF n < 0 THEN -n ELSE n

RECURSIVE Sum(_)
Sum(s) == IF s = <<>> THEN 0 ELSE Head(s) + Sum(Tail(s))

\* ---- budget accountant ----------------------------------------------------
\* "A" is an accountant the caller built with the cap CapA; "D" is the
\* unlimited accountant load_default creates when there is no default.
Accts == {"A", "D"}

NoAcct == "none"

Capped(a) == a = "A"

total(st, a) == Sum(st.ledger[a])

check(st, a, epsilon) ==
    ~Capped(a) \/ total(st, a) + epsilon <= CapA

spend(st, a, epsilon) ==
    [st EXCEPT !.ledger[a] = Append(@, epsilon)]

load_default_target(st, accountant) ==
    IF accountant # NoAcct THEN accountant
    ELSE IF st.default # NoAcct THEN st.default
    ELSE "D"

load_default(st, accountant) ==
    IF accountant = NoAcct /\ st.default = NoAcct
    THEN [st EXCEPT !.default = "D"]
    ELSE st

enter(st, a) ==
    [st EXCEPT !.scopes = Append(@, st.default), !.default = a]

exit(st) ==
    [st EXCEPT !.default = st.scopes[Len(st.scopes)],
               !.scopes = SubSeq(@, 1, Len(@) - 1)]

\* ---- events of one call ---------------------------------------------------
Ev(op, a, epsilon) == [op |-> op, acct |-> a, eps |-> epsilon]

Ops(log) == [i \in 1..Len(log) |-> log[i].op]

Count(log, op) == Cardinality({i \in 1..Len(log) : log[i].op = op})

\* ---- validation helpers ---------------------------------------------------
check_bounds(bounds) == bounds[1] <= bounds[2]

clip(x, bounds) ==
    IF x.nan THEN NaN
    ELSE IF x.v < bounds[1] THEN Num(bounds[1])
    ELSE IF x.v > bounds[2] THEN Num(bounds[2])
    ELSE x

clip_to_bounds(array, bounds) == [i \in 1..Len(array) |-> clip(array[i], bounds)]

\* ---- quantile -------------------------------------------------------------
q_in_range(q) == 0 <= q /\ q <= QDen

augmented(array, bounds) ==
    sort(clip_to_bounds(array, bounds) \o <<Num(bounds[1]), Num(bounds[2])>>)

interval_sizes(aug) == diff(aug)

\* a variant that reports undefined values only when every interval is one
all_nan(sizes) == \A i \in 1..Len(sizes) : isnan(sizes[i])

any_nan(sizes) == \E i \in 1..Len(sizes) : isnan(sizes[i])

\* utility of gap i (0-based), scaled by QDen: -|i - q*k|
utility(k, q) == [j \in 1..(k + 1) |-> -Abs((j - 1) * QDen - q * k)]

\* the indices Exponential.randomise can return: candidate i is selected with
\* probability proportional to measure[i] * exp(epsilon * utility[i] / 2), so
\* the candidates of positive measure; when every measure is zero (lo = hi)
\* the distribution is undefined and any candidate may come back
randomise_outcomes(util, measure) ==
    LET weighted == {i \in 0..(Len(util) - 1) : ~measure[i + 1].nan /\ measure[i + 1].v > 0}
    IN IF weighted # {} THEN weighted ELSE 0..(Len(util) - 1)

\* a variant that offsets the draw from the upper end of the gap
refine_from_upper(u, aug, idx) ==
    Num(u * (aug[idx + 2].v - aug[idx + 1].v) + aug[idx + 2].v * UDen)

\* u * (array[idx+1] - array[idx]) + array[idx], scaled by UDen
refine(u, aug, idx) ==
    Num(u * (aug[idx + 2].v - aug[idx + 1].v) + aug[idx + 1].v * UDen)

Raised(st, log, outcome) ==
    [acc |-> st, log |-> log, outcome |-> outcome, vals |-> <<>>]

Returned(st, log, vals) ==
    [acc |-> st, log |-> log, outcome |-> "ok", vals |-> vals]

\* a variant that resolves the accountant but never checks the budget
precheck_unchecked(st, accountant, epsilon) ==
    LET a == load_default_target(st, accountant)
    IN [acc |-> load_default(st, accountant),
        a |-> a,
        ok |-> TRUE,
        log |-> <<Ev("load_default", a, 0)>>]

\* lines 88-89: resolve the accountant and check the budget
precheck(st, accountant, epsilon) ==
    LET a == load_default_target(st, accountant)
    IN [acc |-> load_default(st, accountant),
        a |-> a,
        ok |-> check(load_default(st, accountant), a, epsilon),
        log |-> <<Ev("load_default", a, 0), Ev("check", a, epsilon)>>]

\* a variant that records the spend before the mechanism runs
release_spend_first(st, a, epsilon) ==
    [acc |-> spend(st, a, epsilon),
     log |-> <<Ev("spend", a, epsilon), Ev("mech", NoAcct, epsilon)>>]

\* lines 107-111: run the mechanism, then record the spend
release(st, a, epsilon) ==
    [acc |-> spend(st, a, epsilon),
     log |-> <<Ev("mech", NoAcct, epsilon), Ev("spend", a, epsilon)>>]

\* lines 88-113: the call for a single q
quantile_single(st, array, q, epsilon, bounds, accountant, idx, u) ==
    LET pc == precheck(st, accountant, epsilon)
        aug == augmented(array, bounds)
    IN IF ~pc.ok THEN Raised(pc.acc, pc.log, "BudgetError")
       ELSE IF ~q_in_range(q) THEN Raised(pc.acc, pc.log, "ValueError")
       ELSE IF any_nan(interval_sizes(aug)) THEN Returned(pc.acc, pc.log, <<NaN>>)
       ELSE LET rl == release(pc.acc, pc.a, epsilon)
            IN Returned(rl.acc, pc.log \o rl.log, <<refine(u, aug, idx)>>)

\* lines 85-86: one call per q_i, with epsilon / len(qs), the checked bounds
\* and no accountant argument; the first error ends the comprehension
RECURSIVE quantile_each(_, _, _, _, _, _, _)
quantile_each(st, array, qs, epsilon, bounds, rnd, i) ==
    IF i > Len(qs) THEN Returned(st, <<>>, <<>>)
    ELSE LET r == quantile_single(st, array, qs[i], epsilon \div Len(qs), bounds,
                                  NoAcct, rnd[i][1], rnd[i][2])
         IN IF r.outcome # "ok" THEN r
            ELSE LET rest == quantile_each(r.acc, array, qs, epsilon, bounds, rnd, i + 1)
                 IN [acc |-> rest.acc,
                     log |-> r.log \o rest.log,
                     outcome |-> rest.outcome,
                     vals |-> IF rest.outcome = "ok" THEN r.vals \o rest.vals ELSE <<>>]

\* lines 72-113
quantile(st, array, qs, epsilon, bounds, accountant, rnd) ==
    IF ~check_bounds(bounds) THEN Raised(st, <<>>, "ValueError")
    ELSE IF Len(qs) > 1 THEN quantile_each(st, array, qs, epsilon, bounds, rnd, 1)
    ELSE quantile_single(st, array, qs[1], epsilon, bounds, accountant,
                         rnd[1][1], rnd[1][2])

\* ---- mean / var / std ----------------------------------------------------
Frac(n, d) == [num |-> n, den |-> d]

\* axis=None, or the index of the axis reduced
NoAxis == [none |-> TRUE, v |-> 0]

Axis(i) == [none |-> FALSE, v |-> i]

RECURSIVE Flatten(_)
Flatten(a) == IF a = <<>> THEN <<>> ELSE Head(a) \o Flatten(Tail(a))

shape(a) == <<Len(a), Len(a[1])>>

\* lines 47-55
temp_axis(a, axis) == IF axis.none THEN <<0, 1>> ELSE <<axis.v>>

\* lines 57-59
RECURSIVE num_datapoints_over(_, _)
num_datapoints_over(a, axes) ==
    IF axes = <<>> THEN 1
    ELSE shape(a)[Head(axes) + 1] * num_datapoints_over(a, Tail(axes))

num_datapoints(a, axis) == num_datapoints_over(a, temp_axis(a, axis))

\* the data reduced into each cell of the output
cells(a, axis) ==
    IF axis.none THEN <<Flatten(a)>>
    ELSE IF axis.v = 0 THEN [j \in 1..Len(a[1]) |-> [i \in 1..Len(a) |-> a[i][j]]]
    ELSE a

out_shape(a, axis) == IF axis.none THEN <<>> ELSE <<Len(cells(a, axis))>>

SumSq(s) == Sum([i \in 1..Len(s) |-> s[i] * s[i]])

np_mean(cell) == Frac(Sum(cell), Len(cell))

np_var(cell) == Frac(Len(cell) * SumSq(cell) - Sum(cell) * Sum(cell), Len(cell) * Len(cell))

SeqMax(s) == CHOOSE x \in {s[i] : i \in 1..Len(s)} : \A j \in 1..Len(s) : s[j] <= x

SeqMin(s) == CHOOSE x \in {s[i] : i \in 1..Len(s)} : \A j \in 1..Len(s) : x <= s[j]

Max(x, y) == IF x >= y THEN x ELSE y

\* data and ranges are counted in units of 1e-5, the floor of a derived range
RangeFloor == 1

NoRange == [kind |-> "none", vals |-> <<>>]

RealRange(r) == [kind |-> "real", vals |-> <<r>>]

ArrayRange(rs) == [kind |-> "array", vals |-> rs]

\* lines 63-73 (mean), 130-140 (var)
ranges_of(a, axis, range) ==
    LET cs == cells(a, axis)
    IN IF range.kind = "none"
       THEN [shape |-> out_shape(a, axis),
             vals |-> [i \in 1..Len(cs) |-> Max(SeqMax(cs[i]) - SeqMin(cs[i]), RangeFloor)]]
       ELSE IF range.kind = "real"
       THEN [shape |-> out_shape(a, axis),
             vals |-> [i \in 1..Len(cs) |-> range.vals[1]]]
       ELSE [shape |-> <<Len(range.vals)>>, vals |-> range.vals]

\* a variant that accepts a range of zero
ranges_nonnegative(ranges) == \A i \in 1..Len(ranges.vals) : ranges.vals[i] >= 0

\* line 75 (mean), 142 (var)
ranges_positive(ranges) == \A i \in 1..Len(ranges.vals) : ranges.vals[i] > 0

\* line 77 (mean), 144 (var)
shape_matches(ranges, a, axis) == ranges.shape = out_shape(a, axis)

MechEv(kind, epsilon, sens, lower, value) ==
    [op |-> "mech", kind |-> kind, eps |-> epsilon, sens |-> sens,
     lower |-> lower, upper |-> "inf", value |-> value]

\* the output of randomise: a sample of the mechanism's distribution around
\* value, named by the draw of its mechanism that produced it
Sample(value, draw) == [loc |-> value, draw |-> draw, sqrt |-> FALSE]

\* lines 86 and 94
mean_sensitivity(r, n) == Frac(r, n)

\* line 154
var_sensitivity_cell(r, n) == Frac(r * r * (n - 1), n * n)

\* line 163
var_sensitivity_scalar(r, n) == Frac(r * r, n)

CallResult(st, log, outcome, vals) ==
    [acc |-> st, log |-> log, outcome |-> outcome, vals |-> vals]

\* lines 33-96
mean(st, a, epsilon, range, axis, draws) ==
    LET n == num_datapoints(a, axis)
        cs == cells(a, axis)
        ranges == ranges_of(a, axis, range)
    IN IF ~ranges_positive(ranges) THEN CallResult(st, <<>>, "ValueError", <<>>)
       ELSE IF ~shape_matches(ranges, a, axis) THEN CallResult(st, <<>>, "ValueError", <<>>)
       ELSE IF ~axis.none
       THEN CallResult(st,
                [i \in 1..Len(cs) |->
                    MechEv("Laplace", epsilon, mean_sensitivity(ranges.vals[i], n),
                           "-inf", np_mean(cs[i]))],
                "ok",
                [i \in 1..Len(cs) |-> Sample(np_mean(cs[i]), draws[i])])
       ELSE CallResult(st,
                <<MechEv("Laplace", epsilon, mean_sensitivity(ranges.vals[1], n),
                         "-inf", np_mean(cs[1]))>>,
                "ok",
                <<Sample(np_mean(cs[1]), draws[1])>>)

\* lines 99-165
var(st, a, epsilon, range, axis, draws) ==
    LET n == num_datapoints(a, axis)
        cs == cells(a, axis)
        ranges == ranges_of(a, axis, range)
    IN IF ~ranges_positive(ranges) THEN CallResult(st, <<>>, "ValueError", <<>>)
       ELSE IF ~shape_matches(ranges, a, axis) THEN CallResult(st, <<>>, "ValueError", <<>>)
       ELSE IF ~axis.none
       THEN CallResult(st,
                [i \in 1..Len(cs) |->
                    MechEv("LaplaceBoundedDomain", epsilon,
                           var_sensitivity_cell(ranges.vals[i], n), "0", np_var(cs[i]))],
                "ok",
                [i \in 1..Len(cs) |-> Sample(np_var(cs[i]), draws[i])])
       ELSE CallResult(st,
                <<MechEv("LaplaceBoundedDomain", epsilon,
                         var_sensitivity_scalar(ranges.vals[1], n), "0", np_var(cs[1]))>>,
                "ok",
                <<Sample(np_var(cs[1]), draws[1])>>)

\* lines 168-191: the square root of every cell var returns
std(st, a, epsilon, range, axis, draws) ==
    LET ret == var(st, a, epsilon, range, axis, draws)
    IN [ret EXCEPT !.vals = [i \in 1..Len(ret.vals) |-> [ret.vals[i] EXCEPT !.sqrt = TRUE]]]

\* ---- inputs ---------------------------------------------------------------
SeqsUpTo(S, n) == UNION {[1..m -> S] : m \in 1..n}

\* arrays, fractions and draws of the calls made against the accountants
DataVals == {Num(1), Num(3), NaN}

Arrays == SeqsUpTo(DataVals, MaxLen)

QVals == {-1, 1, QDen + 1}

Quantiles == SeqsUpTo(QVals, MaxQ)

Epsilons == {EpsUnit}

Bounds == {<<0, 2>>}

\* what one sub-query can draw: the gap mech.randomise() selects and the
\* uniform variate of mech._rng.random()
Draws(array, bounds, q) ==
    randomise_outcomes(utility(Len(array), q), interval_sizes(augmented(array, bounds)))
        \X (0..(UDen - 1))

NoDraw == <<0, 0>>

\* the number of sub-queries of a call that reach the mechanism; the path of
\* a call does not depend on what the mechanisms draw
DrawsConsumed(st, array, qs, epsilon, bounds, accountant) ==
    Count(quantile(st, array, qs, epsilon, bounds, accountant,
                   [i \in 1..Len(qs) |-> NoDraw]).log, "mech")

\* the draws of a call: every sub-query that reaches its mechanism draws
\* independently of the others; a sub-query that does not draws nothing
\* (recorded as NoDraw)
Streams(st, array, qs, epsilon, bounds, accountant) ==
    LET n == DrawsConsumed(st, array, qs, epsilon, bounds, accountant)
    IN {[i \in 1..Len(qs) |-> IF i <= n THEN d[i] ELSE NoDraw] :
            d \in [1..n -> Draws(array, bounds, qs[1])]}

\* inputs of the calls whose returned value is examined
ValueData == {Num(0), Num(1), Num(2), Num(3)}

ValueArrays == {<<>>} \cup SeqsUpTo(ValueData, MaxLen)

ValueBounds == {<<1, 1>>, <<1, 2>>, <<2, 2>>}

ValueQs == (-1)..(QDen + 1)

\* inputs of mean / var / std
Cols == {1, 2}

Matrices == UNION {[1..r -> [1..c -> {0, 1}]] : r \in 1..MaxLen, c \in Cols}

Axes == {NoAxis, Axis(0), Axis(1)}

RangeVals == {-1, 0, 2}

Ranges ==
    {NoRange} \cup {RealRange(r) : r \in RangeVals}
              \cup {ArrayRange(rs) : rs \in SeqsUpTo(RangeVals, MaxLen)}

Idle == [fn |-> "none"]

InitAcc == [ledger |-> [a \in Accts |-> <<>>], default |-> NoAcct, scopes |-> <<>>]

Spends(st) == Len(st.ledger["A"]) + Len(st.ledger["D"])

\* ---- actions --------------------------------------------------------------
Init ==
    /\ acc = InitAcc
    /\ last = Idle

\* with acc: ... (entering the scope of accountant A)
Enter ==
    /\ last.fn = "none"
    /\ Len(acc.scopes) < MaxDepth
    /\ acc' = enter(acc, "A")
    /\ UNCHANGED last

\* leaving the scope restores the previous default
Exit ==
    /\ last.fn = "none"
    /\ Len(acc.scopes) > 0
    /\ acc' = exit(acc)
    /\ UNCHANGED last

QuantileCall(array, qs, epsilon, bounds, accountant, rnd) ==
    LET r == quantile(acc, array, qs, epsilon, bounds, accountant, rnd)
    IN /\ acc' = r.acc
       /\ last' = [fn |-> "quantile", array |-> array, qs |-> qs,
                   epsilon |-> epsilon, bounds |-> bounds,
                   accountant |-> accountant, rnd |-> rnd, pre |-> acc,
                   log |-> r.log, outcome |-> r.outcome, vals |-> r.vals]

Quantile ==
    /\ last.fn = "none"
    /\ \E array \in Arrays, qs \in Quantiles, epsilon \in Epsilons,
          bounds \in Bounds, accountant \in {NoAcct, "A"} :
        /\ Spends(acc) + Len(qs) <= MaxSpends
        /\ \E rnd \in Streams(acc, array, qs, epsilon, bounds, accountant) :
            QuantileCall(array, qs, epsilon, bounds, accountant, rnd)

\* the caller drops the result of the last call
Forget ==
    /\ last.fn # "none"
    /\ last' = Idle
    /\ UNCHANGED acc

Next == Enter \/ Exit \/ Quantile \/ Forget

Spec == Init /\ [][Next]_vars

\* ---- the value quantile returns ---------------------------------------------
InitValue ==
    /\ acc = InitAcc
    /\ \E array \in ValueArrays, q \in ValueQs, bounds \in ValueBounds :
        \E rnd \in Streams(InitAcc, array, <<q>>, EpsUnit, bounds, NoAcct) :
            last = [fn |-> "args", array |-> array, qs |-> <<q>>, epsilon |-> EpsUnit,
                    bounds |-> bounds, accountant |-> NoAcct, rnd |-> rnd]

QuantileValue ==
    /\ last.fn = "args"
    /\ QuantileCall(last.array, last.qs, last.epsilon, last.bounds,
                    last.accountant, last.rnd)

NextValue == QuantileValue

SpecValue == InitValue /\ [][NextValue]_vars

\* ---- mean / var / std calls -------------------------------------------------
\* the mechanisms a call runs: one per cell of the output, none when the
\* call raises; the path of a call does not depend on what they draw
MechRuns(r) == Count(r.log, "mech")

ZeroDraws(a, axis) == [i \in 1..Len(cells(a, axis)) |-> 0]

\* every mechanism of a call draws independently of the others
CellDraws(n) == [1..n -> 0..(UDen - 1)]

StatsCall(fn, a, epsilon, range, axis, draws, r) ==
    /\ acc' = r.acc
    /\ last' = [fn |-> fn, a |-> a, epsilon |-> epsilon, range |-> range,
                axis |-> axis, draws |-> draws, pre |-> acc,
                log |-> r.log, outcome |-> r.outcome, vals |-> r.vals]

Mean ==
    /\ last.fn = "none"
    /\ \E a \in Matrices, epsilon \in Epsilons, range \in Ranges, axis \in Axes :
        \E draws \in CellDraws(MechRuns(mean(acc, a, epsilon, range, axis, ZeroDraws(a, axis)))) :
            StatsCall("mean", a, epsilon, range, axis, draws,
                      mean(acc, a, epsilon, range, axis, draws))

Var ==
    /\ last.fn = "none"
    /\ \E a \in Matrices, epsilon \in Epsilons, range \in Ranges, axis \in Axes :
        \E draws \in CellDraws(MechRuns(var(acc, a, epsilon, range, axis, ZeroDraws(a, axis)))) :
            StatsCall("var", a, epsilon, range, axis, draws,
                      var(acc, a, epsilon, range, axis, draws))

Std ==
    /\ last.fn = "none"
    /\ \E a \in Matrices, epsilon \in Epsilons, range \in Ranges, axis \in Axes :
        \E draws \in CellDraws(MechRuns(std(acc, a, epsilon, range, axis, ZeroDraws(a, axis)))) :
            StatsCall("std", a, epsilon, range, axis, draws,
                      std(acc, a, epsilon, range, axis, draws))

NextStats == Enter \/ Exit \/ Mean \/ Var \/ Std \/ Forget

SpecStats == Init /\ [][NextStats]_vars

\* ---- properties --------------------------------------------------------------
IsQuantile == last.fn = "quantile"

IsSingle == IsQuantile /\ Len(last.qs) = 1

IsStats == last.fn \in {"mean", "var", "std"}

InUnit(q) == q >= 0 /\ q <= QDen

AllInUnit(qs) == \A i \in 1..Len(qs) : InUnit(qs[i])

HasNaN(array) == \E i \in 1..Len(array) : array[i].nan

\* the accountant a single-q call answers to: the one passed, else the
\* default of the enclosing scope, else the fresh unlimited one
Resolved ==
    IF last.accountant # NoAcct THEN last.accountant
    ELSE IF last.pre.default # NoAcct THEN last.pre.default
    ELSE "D"

OverCap(a, epsilon) == Capped(a) /\ Sum(last.pre.ledger[a]) + epsilon > CapA

TotalsUnchanged == \A a \in Accts : Sum(acc.ledger[a]) = Sum(last.pre.ledger[a])

\* C1: a single-q call with q in [0,1] whose accountant (explicit, or the
\* default of the enclosing scope) would exceed its cap raises the budget
\* error, never runs the mechanism, records no spend and leaves every total
\* as it was.
C1_OverCapRejected ==
    (IsSingle /\ InUnit(last.qs[1]) /\ OverCap(Resolved, last.epsilon))
        => /\ last.outcome = "BudgetError"
           /\ Count(last.log, "mech") = 0
           /\ Count(last.log, "spend") = 0
           /\ acc.ledger = last.pre.ledger
           /\ TotalsUnchanged

C1_Witness ==
    /\ IsSingle /\ InUnit(last.qs[1])
    /\ last.accountant = NoAcct /\ last.pre.default = "A"
    /\ OverCap("A", last.epsilon)
    /\ Sum(last.pre.ledger["A"]) = EpsUnit
    /\ last.outcome = "BudgetError"

\* C2: a call with k >= 2 fractions in [0,1], total epsilon e and an
\* accountant A passed by the caller with enough budget left adds k spends
\* of e/k to A's ledger.
C2_ExplicitAccountantCharged ==
    (/\ IsQuantile /\ Len(last.qs) >= 2 /\ AllInUnit(last.qs)
     /\ ~HasNaN(last.array)
     /\ last.accountant = "A" /\ ~OverCap("A", last.epsilon)
     /\ last.outcome = "ok")
        => acc.ledger["A"] =
             last.pre.ledger["A"] \o [i \in 1..Len(last.qs) |-> last.epsilon \div Len(last.qs)]

\* C3: a quantile call that ends with an error leaves the total of every
\* accountant as it was before the call.
C3_NoSpendOnError ==
    (IsQuantile /\ last.outcome # "ok") => TotalsUnchanged

\* C4: a call with q outside [0,1] fails with a value error before any
\* accountant interaction (no load_default, check or spend).
C4_BadQuantileBeforeAccountant ==
    (IsSingle /\ ~InUnit(last.qs[1]))
        => /\ last.outcome = "ValueError"
           /\ last.log = <<>>

\* C5: for an array of defined numbers, bounds lo <= hi and q in [0,1], with
\* any selectable gap index and any draw u, the value returned lies in
\* [lo, hi] and the gap index stays inside the k+2 augmented values.
C5_ValueWithinBounds ==
    (IsQuantile /\ last.outcome = "ok" /\ ~HasNaN(last.array))
        => \A i \in 1..Len(last.vals) :
              /\ ~last.vals[i].nan
              /\ last.bounds[1] * UDen <= last.vals[i].v
              /\ last.vals[i].v <= last.bounds[2] * UDen
              /\ last.rnd[i][1] + 2 <= Len(augmented(last.array, last.bounds))

C5_Witness ==
    /\ IsSingle /\ last.outcome = "ok"
    /\ Len(last.array) = MaxLen
    /\ \E i \in 1..Len(last.array) : last.array[i].v < last.bounds[1]
    /\ last.rnd[1][1] = Len(last.array)
    /\ last.rnd[1][2] = UDen - 1
    /\ last.vals[1].v > last.bounds[1] * UDen

\* C6: every successful mean / var / std call checks (epsilon, 0) against an
\* accountant before its first mechanism, records that spend after the last
\* one, and so raises the accountant's total by epsilon.
C6_StatsUseAccountant ==
    (IsStats /\ last.outcome = "ok")
        => /\ Len(last.log) >= 3
           /\ last.log[1].op = "check"
           /\ last.log[Len(last.log)].op = "spend"
           /\ \E a \in Accts : Sum(acc.ledger[a]) = Sum(last.pre.ledger[a]) + last.epsilon

\* C7 as stated: a single-q call with q in [0,1] on an array holding an
\* undefined value returns the undefined marker, raises nothing and runs no
\* mechanism.
C7_NaNAlwaysReturned ==
    (IsSingle /\ InUnit(last.qs[1]) /\ HasNaN(last.array))
        => /\ last.outcome = "ok"
           /\ last.vals = <<NaN>>
           /\ Count(last.log, "mech") = 0

\* C7 amended: the same, for calls whose accountant has the budget for
\* epsilon (otherwise the budget error comes first).
C7_NaNReturnedWithinBudget ==
    (IsSingle /\ InUnit(last.qs[1]) /\ HasNaN(last.array)
     /\ ~OverCap(Resolved, last.epsilon))
        => /\ last.outcome = "ok"
           /\ last.vals = <<NaN>>
           /\ Count(last.log, "mech") = 0

C7_Witness ==
    /\ IsSingle /\ InUnit(last.qs[1])
    /\ Len(last.array) = 2 /\ last.array[1].nan /\ ~last.array[2].nan
    /\ Resolved = "A"
    /\ last.outcome = "ok" /\ last.vals = <<NaN>>

\* the cells of the range a caller supplied are all positive / shaped like
\* the output of the reduction
RangeGiven == last.range.kind # "none"

RangeNotPositive == \E i \in 1..Len(last.range.vals) : last.range.vals[i] <= 0

RangeShape == IF last.range.kind = "real" THEN <<>> ELSE <<Len(last.range.vals)>>

OutputShape ==
    IF last.axis.none THEN <<>>
    ELSE IF last.axis.v = 0 THEN <<Len(last.a[1])>>
    ELSE <<Len(last.a)>>

\* C8 as stated: a supplied range with a non-positive entry, or whose shape
\* differs from the shape of the output, fails with a value error before any
\* mechanism is built or randomised.
C8_RangeShapeOrSignRejected ==
    (IsStats /\ RangeGiven /\ (RangeNotPositive \/ RangeShape # OutputShape))
        => /\ last.outcome = "ValueError"
           /\ Count(last.log, "mech") = 0

\* C8 amended: the same, where the shape of a range given as one real number
\* is never compared (it is spread over every cell of the output); only an
\* array-like range must have the shape of the output.
C8_ArrayRangeShapeOrSignRejected ==
    (IsStats /\ RangeGiven
     /\ (RangeNotPositive \/ (last.range.kind = "array" /\ RangeShape # OutputShape)))
        => /\ last.outcome = "ValueError"
           /\ Count(last.log, "mech") = 0

C8_Witness ==
    /\ last.fn = "var" /\ last.range.kind = "array"
    /\ ~last.axis.none /\ RangeShape = OutputShape /\ Len(last.range.vals) = 2
    /\ last.range.vals[1] > 0 /\ last.range.vals[2] = 0
    /\ last.outcome = "ValueError"

SingleOkLog(a, epsilon) ==
    <<Ev("load_default", a, 0), Ev("check", a, epsilon),
      Ev("mech", NoAcct, epsilon), Ev("spend", a, epsilon)>>

\* C9 as stated: every single-q call that returns without error, whatever the
\* array, makes one check, then one mechanism run, then one spend, on the
\* same accountant.
C9_CheckMechSpendAlways ==
    (IsSingle /\ last.outcome = "ok")
        => last.log = SingleOkLog(Resolved, last.epsilon)

\* C9 amended: that holds for arrays of defined numbers; for an array holding
\* an undefined value the call makes the one check and then neither runs the
\* mechanism nor records a spend.
C9_CheckMechSpendUnlessNaN ==
    (IsSingle /\ last.outcome = "ok")
        => IF HasNaN(last.array)
           THEN /\ last.log = <<Ev("load_default", Resolved, 0),
                                Ev("check", Resolved, last.epsilon)>>
                /\ acc.ledger = last.pre.ledger
           ELSE /\ last.log = SingleOkLog(Resolved, last.epsilon)
                /\ acc.ledger = [last.pre.ledger EXCEPT ![Resolved] = Append(@, last.epsilon)]

C9_Witness ==
    /\ IsSingle /\ last.outcome = "ok" /\ ~HasNaN(last.array)
    /\ Resolved = "A" /\ last.pre.ledger["A"] = <<>>
    /\ acc.ledger["A"] = <<last.epsilon>>
    /\ Count(last.log, "mech") = 1

\* the declared range and the number of data points of cell i of the last call
CellRange(i) ==
    IF last.range.kind = "array" THEN last.range.vals[i] ELSE last.range.vals[1]

CellPoints ==
    IF last.axis.none THEN Len(last.a) * Len(last.a[1])
    ELSE IF last.axis.v = 0 THEN Len(last.a)
    ELSE Len(last.a[1])

\* C10: every mechanism of a var call gets the sensitivity
\* (range/n)^2 * (n-1), for an array of cells and for a single scalar alike,
\* with the bounds lower = 0, upper = +infinity.
C10_VarSensitivity ==
    (last.fn = "var" /\ RangeGiven /\ last.outcome = "ok")
        => \A i \in 1..Len(last.log) :
              /\ last.log[i].sens.num * CellPoints * CellPoints
                    = CellRange(i) * CellRange(i) * (CellPoints - 1) * last.log[i].sens.den
              /\ last.log[i].lower = "0"
              /\ last.log[i].upper = "inf"

====
